---- MODULE Spec2Model ----
(***************************************************************************)
(* The /api/generate-plans handler of travel_agent/main.ts: one request    *)
(* drains the agent's event stream into fullResponse, then reconciles the  *)
(* accumulated text into planData (strict parse, relaxed travel_plan       *)
(* parse, text wrap, empty response, catch-all) and answers.  Spec is one  *)
(* request; SpecConcurrent is two invocations of the handler in flight at  *)
(* once.  The generators of the travel_plan_generator tool are modelled    *)
(* beside the handler's own mode tables.                                   *)
(*                                                                         *)
(* A JavaScript string is a sequence of one-character strings.  The texts  *)
(* the agent can send are built from the fragments below; the characters   *)
(* that occur in them are letters, digits, space, underscore and the       *)
(* punctuation { } " : , (no backslash, sign, dot or bracket).             *)
(***************************************************************************)
EXTENDS Integers, Sequences, FiniteSets

\* ------------------------------------------------------------------ bounds

\* Events the agent delivers before its stream ends, at most.
MaxEvents == 2
\* Trip durations range over 1..MaxDuration days.
MaxDuration == 5

\* ------------------------------------------------------------ text fragments

TextPreamble ==
    <<"H", "e", "r", "e", " ", "i", "s", " ", "t", "h", "e", " ", "p", "l", "a", "n", ":", " ">>
TextMalformed ==
    <<"{", "\"", "m", "o", "d", "e", "\"", ":", " ", "\"", "F", "l", "o", "w", "\"", ",", " ", "o", "o", "p", "s", "}">>
TextNoise ==
    <<"n", "o", "i", "s", "e">>
TextNested ==
    <<"{", "\"", "a", "\"", ":", "{", "\"", "b", "\"", ":", "1", "}", "}">>
TextTail ==
    <<"t", "a", "i", "l">>
TextStrictPlan ==
    <<"{", "\"", "b", "\"", ":", "2", ",", "\"", "t", "r", "a", "v", "e", "l", "_", "p", "l", "a", "n", "\"", ":", "{", "\"", "a", "\"", ":", "1", "}", "}">>
TextRelaxedPlan ==
    <<"{", "\"", "t", "r", "a", "v", "e", "l", "_", "p", "l", "a", "n", "\"", ":", "{", "\"", "a", "\"", ":", "1", "}", ",", "o", "o", "p", "s", "}">>
TextBrokenPlan ==
    <<"{", "\"", "b", "\"", ":", "2", ",", "\"", "t", "r", "a", "v", "e", "l", "_", "p", "l", "a", "n", "\"", ":", "{", "o", "o", "p", "s", "}", "}">>
TextOpenLabels ==
    <<"{", "\"", "D", "e", "s", "t", "i", "n", "a", "t", "i", "o", "n", "\"", ":", " ", "\"", "K", "y", "o", "t", "o", "\"", ",", " ", "\"", "d", "u", "r", "a", "t", "i", "o", "n", "\"", ":", " ", "7">>
TextClose ==
    <<"}">>
TextBareLabel ==
    <<"{", "\"", "m", "o", "d", "e", "\"", "}">>
TextErrorShaped ==
    <<"{", "\"", "e", "r", "r", "o", "r", "\"", ":", "1", ",", "\"", "d", "e", "t", "a", "i", "l", "s", "\"", ":", "2", "}">>
Tokyo ==
    <<"T", "o", "k", "y", "o">>
\* ------------------------------------------------------------ string literals

BUDGET ==
    <<"b", "u", "d", "g", "e", "t">>
MODERATE ==
    <<"m", "o", "d", "e", "r", "a", "t", "e">>
LUXURY ==
    <<"l", "u", "x", "u", "r", "y">>
CONSTRUCTOR ==
    <<"c", "o", "n", "s", "t", "r", "u", "c", "t", "o", "r">>
GoingWithTheFlow ==
    <<"G", "o", "i", "n", "g", " ", "w", "i", "t", "h", " ", "t", "h", "e", " ", "F", "l", "o", "w">>
ModerateExplorer ==
    <<"M", "o", "d", "e", "r", "a", "t", "e", " ", "E", "x", "p", "l", "o", "r", "e", "r">>
IntenseAdventure ==
    <<"I", "n", "t", "e", "n", "s", "e", " ", "A", "d", "v", "e", "n", "t", "u", "r", "e">>
Relaxed ==
    <<"R", "e", "l", "a", "x", "e", "d">>
Balanced ==
    <<"B", "a", "l", "a", "n", "c", "e", "d">>
FastPaced ==
    <<"F", "a", "s", "t", "-", "p", "a", "c", "e", "d">>
High ==
    <<"H", "i", "g", "h">>
Medium ==
    <<"M", "e", "d", "i", "u", "m">>
Low ==
    <<"L", "o", "w">>
LabelDestination ==
    <<"d", "e", "s", "t", "i", "n", "a", "t", "i", "o", "n">>
LabelDuration ==
    <<"d", "u", "r", "a", "t", "i", "o", "n">>
LabelMode ==
    <<"m", "o", "d", "e">>
TravelPlanKey ==
    <<"\"", "t", "r", "a", "v", "e", "l", "_", "p", "l", "a", "n", "\"">>
NoAiResponseReceived ==
    <<"N", "o", " ", "A", "I", " ", "r", "e", "s", "p", "o", "n", "s", "e", " ", "r", "e", "c", "e", "i", "v", "e", "d">>
SamplePlanFor ==
    <<"S", "a", "m", "p", "l", "e", " ", "p", "l", "a", "n", " ", "f", "o", "r", " ">>
AiResponseWasEmpty ==
    <<" ", "-", " ", "A", "I", " ", "r", "e", "s", "p", "o", "n", "s", "e", " ", "w", "a", "s", " ", "e", "m", "p", "t", "y">>
CustomizedPrefix ==
    <<"C", "u", "s", "t", "o", "m", "i", "z", "e", "d", " ">>
PlanForYour ==
    <<" ", "p", "l", "a", "n", " ", "f", "o", "r", " ", "y", "o", "u", "r", " ">>
BudgetAndPreferences ==
    <<" ", "b", "u", "d", "g", "e", "t", " ", "a", "n", "d", " ", "p", "r", "e", "f", "e", "r", "e", "n", "c", "e", "s", ".">>
BudgetSuffix ==
    <<" ", "b", "u", "d", "g", "e", "t", ".">>
AiGeneratedPrefix ==
    <<"A", "I", "-", "g", "e", "n", "e", "r", "a", "t", "e", "d", " ">>
PlanFor ==
    <<" ", "p", "l", "a", "n", " ", "f", "o", "r", " ">>
Flow ==
    <<"F", "l", "o", "w">>
Daily80To120 == <<"$", "8", "0", "-", "1", "2", "0">>
Daily120To180 == <<"$", "1", "2", "0", "-", "1", "8", "0">>
Daily180To250 == <<"$", "1", "8", "0", "-", "2", "5", "0">>
Attractions2To3 == <<"2", "-", "3">>
Attractions4To5 == <<"4", "-", "5">>
Attractions6To8 == <<"6", "-", "8">>
\* The emoji are single symbols here, named by their code points.
EmojiWave == <<"U+1F30A">>
EmojiScales == <<"U+2696", "U+FE0F">>
EmojiFire == <<"U+1F525">>

\* ------------------------------------------------------------ string helpers

\* JavaScript indexes from 0; -1 is "not found".
CharAt(s, i) == s[i + 1]
\* s.substring(from, to)
Substring(s, from, to) == SubSeq(s, from + 1, to)

\* The first index from `from` on whose character is a Hit, Len(s) when
\* there is none (and `from` itself when it is past the end).
FirstIndex(s, from, Hit(_)) ==
    IF from >= Len(s) THEN from
    ELSE CHOOSE k \in from..Len(s) :
            /\ k = Len(s) \/ Hit(CharAt(s, k))
            /\ \A j \in from..(k - 1) : ~Hit(CharAt(s, j))

\* s.indexOf(c, i)
IndexOfFrom(s, c, i) ==
    LET IsC(x) == x = c
        at == FirstIndex(s, i, IsC)
    IN  IF at >= Len(s) THEN -1 ELSE at

\* s.indexOf(c)
IndexOf(s, c) == IndexOfFrom(s, c, 0)

\* s.startsWith(word, i)
StartsWithAt(s, word, i) ==
    /\ i + Len(word) <= Len(s)
    /\ \A k \in 1..Len(word) : s[i + k] = word[k]

\* s.includes(word)

\* The characters \s matches and trim() strips, among those of the texts.
Whitespace == {" ", "\n", "\t", "\r"}

NotWhitespace(c) == c \notin Whitespace

\* The first index from i on that holds no whitespace (Len(s) at the end).
SkipWhitespace(s, i) == FirstIndex(s, i, NotWhitespace)

\* s.trim()
Trim(s) ==
    LET first == SkipWhitespace(s, 0)
        last == CHOOSE k \in first..(Len(s) - 1) :
                    /\ CharAt(s, k) \notin Whitespace
                    /\ \A j \in (k + 1)..(Len(s) - 1) : CharAt(s, j) \in Whitespace
    IN  IF first >= Len(s) THEN <<>> ELSE Substring(s, first, last + 1)

NotQuote(c) == c \notin {"'", "\""}
\* s.replace(/['"]/g, '')
RemoveQuotes(s) == SelectSeq(s, NotQuote)

UpperCase ==
    <<"A", "B", "C", "D", "E", "F", "G", "H", "I", "J", "K", "L", "M",
      "N", "O", "P", "Q", "R", "S", "T", "U", "V", "W", "X", "Y", "Z">>
LowerCase ==
    <<"a", "b", "c", "d", "e", "f", "g", "h", "i", "j", "k", "l", "m",
      "n", "o", "p", "q", "r", "s", "t", "u", "v", "w", "x", "y", "z">>
\* The case folding of the regular expressions' i flag.
LowerChar(c) ==
    IF \E k \in 1..26 : UpperCase[k] = c
    THEN LowerCase[CHOOSE k \in 1..26 : UpperCase[k] = c]
    ELSE c

\* ------------------------------------------------------ balanced-brace scan

\* The loop body of lines 166-173 at index i, on the loop's variables; once
\* jsonEnd is set the loop has left (break).
ScanStep(s, i, loop) ==
    IF loop.jsonEnd # -1 THEN loop
    ELSE IF CharAt(s, i) = "{"
    THEN [braceCount |-> loop.braceCount + 1, jsonEnd |-> -1]
    ELSE IF CharAt(s, i) = "}"
    THEN [braceCount |-> loop.braceCount - 1,
          jsonEnd |-> IF loop.braceCount - 1 = 0 THEN i ELSE -1]
    ELSE loop

RECURSIVE ScanRange(_, _, _, _), ScanOn(_, _, _, _)
\* The loop run over the indexes from..upto in order (the range is halved,
\* first half first, so that the nesting stays shallow).
ScanRange(s, from, upto, loop) ==
    IF from > upto THEN loop
    ELSE IF from = upto THEN ScanStep(s, from, loop)
    ELSE ScanOn(s, (from + upto) \div 2 + 1, upto,
                ScanRange(s, from, (from + upto) \div 2, loop))
\* The loop from index from on, unless it has left already.
ScanOn(s, from, upto, loop) ==
    IF loop.jsonEnd # -1 THEN loop ELSE ScanRange(s, from, upto, loop)

\* A scan that keeps no depth: it ends at the first '}'.
ScanToFirstClose(s, jsonStart) == IndexOfFrom(s, "}", jsonStart)

\* The for loop of lines 162-174: jsonEnd, or -1 when the text ends first.
ScanBraces(s, jsonStart) ==
    ScanRange(s, jsonStart, Len(s) - 1, [braceCount |-> 0, jsonEnd |-> -1]).jsonEnd

\* Lines 159-177: jsonStart, jsonEnd (-1 when the scan is not run or finds
\* no end) and jsonStr (empty unless an end is found).
BraceScanFrom(s, jsonStart, jsonEnd) ==
    [jsonStart |-> jsonStart,
     jsonEnd |-> jsonEnd,
     jsonStr |-> IF jsonEnd # -1 THEN Substring(s, jsonStart, jsonEnd + 1) ELSE <<>>]

BraceScanAt(s, jsonStart) ==
    BraceScanFrom(s, jsonStart,
                  IF jsonStart # -1 THEN ScanBraces(s, jsonStart) ELSE -1)

BraceScan(s) == BraceScanAt(s, IndexOf(s, "{"))

\* ----------------------------------------------------------------- JSON.parse

\* A parsed value is a tagged pair: <<"obj", members>> with members a
\* sequence of <<key, value>> in insertion order, <<"arr", elements>>,
\* <<"str", characters>>, <<"num", n>>, <<"lit", "true" | "false" | "null">>.
Ok(pos, val) == [ok |-> TRUE, pos |-> pos, val |-> val]
Fail(pos) == [ok |-> FALSE, pos |-> pos, val |-> <<"none", <<>>>>]

Digits == {"0", "1", "2", "3", "4", "5", "6", "7", "8", "9"}
DigitValue(c) ==
    CASE c = "0" -> 0 [] c = "1" -> 1 [] c = "2" -> 2 [] c = "3" -> 3
      [] c = "4" -> 4 [] c = "5" -> 5 [] c = "6" -> 6 [] c = "7" -> 7
      [] c = "8" -> 8 [] c = "9" -> 9

NotDigit(c) == c \notin Digits

\* The first index from i on that holds no digit.
DigitsEnd(s, i) == FirstIndex(s, i, NotDigit)

RECURSIVE DecimalValue(_)
\* The number a run of digits denotes.
DecimalValue(ds) ==
    IF ds = <<>> THEN 0
    ELSE 10 * DecimalValue(SubSeq(ds, 1, Len(ds) - 1)) + DigitValue(ds[Len(ds)])

RECURSIVE Pow10(_)
Pow10(n) == IF n = 0 THEN 1 ELSE 10 * Pow10(n - 1)

\* The exponent e<digits> whose digits run from intEnd + 1 to expEnd.
ParseExponent(s, int, intEnd, expEnd) ==
    IF expEnd = intEnd + 1 THEN Fail(expEnd)
    ELSE Ok(expEnd, <<"num", int * Pow10(DecimalValue(Substring(s, intEnd + 1, expEnd)))>>)

\* The number whose integer part is int and ends at intEnd.
ParseNumberFrom(s, int, intEnd) ==
    IF intEnd < Len(s) /\ CharAt(s, intEnd) \in {"e", "E"}
    THEN ParseExponent(s, int, intEnd, DigitsEnd(s, intEnd + 1))
    ELSE Ok(intEnd, <<"num", int>>)

\* The number whose integer part runs from i to intEnd.
ParseNumberTo(s, i, intEnd) ==
    ParseNumberFrom(s, DecimalValue(Substring(s, i, intEnd)), intEnd)

\* A number starting at the digit at i: 0 | [1-9][0-9]*, then an optional
\* exponent e<digits>.
ParseNumber(s, i) ==
    ParseNumberTo(s, i, IF CharAt(s, i) = "0" THEN i + 1 ELSE DigitsEnd(s, i))

EndsString(c) == c \in {"\"", "\n", "\t", "\r"}

\* The string opened by the quote at i, given where its content ends: at
\* the closing quote, or else at a control character or the end of the text,
\* which is an error there.
ParseStringTo(s, i, at) ==
    IF at < Len(s) /\ CharAt(s, at) = "\""
    THEN Ok(at + 1, <<"str", Substring(s, i + 1, at)>>)
    ELSE Fail(at)

\* A string starting at the quote at i.
ParseString(s, i) == ParseStringTo(s, i, FirstIndex(s, i + 1, EndsString))

RECURSIVE MismatchAt(_, _, _, _)
\* The first index where s from i on departs from word[k..], or -1.
MismatchAt(s, i, word, k) ==
    IF k > Len(word) THEN -1
    ELSE IF i < Len(s) /\ CharAt(s, i) = word[k]
    THEN MismatchAt(s, i + 1, word, k + 1)
    ELSE i

\* The literal a first letter announces.
LiteralWord(c) ==
    CASE c = "t" -> <<"t", "r", "u", "e">>
      [] c = "f" -> <<"f", "a", "l", "s", "e">>
      [] c = "n" -> <<"n", "u", "l", "l">>
LiteralName(c) == CASE c = "t" -> "true" [] c = "f" -> "false" [] c = "n" -> "null"

ParseLiteralTo(s, i, bad) ==
    IF bad = -1 THEN Ok(i + Len(LiteralWord(CharAt(s, i))), <<"lit", LiteralName(CharAt(s, i))>>)
    ELSE Fail(bad)

\* true, false or null starting at i.
ParseLiteral(s, i) == ParseLiteralTo(s, i, MismatchAt(s, i, LiteralWord(CharAt(s, i)), 1))

RECURSIVE PutMember(_, _, _)
\* obj[key] = val: a repeated key keeps its place and takes the later value.
PutMember(members, key, val) ==
    IF members = <<>> THEN <<<<key, val>>>>
    ELSE IF Head(members)[1] = key THEN <<<<key, val>>>> \o Tail(members)
    ELSE <<Head(members)>> \o PutMember(Tail(members), key, val)

RECURSIVE ParseValue(_, _), ParseValueAt(_, _), ParseObjectAt(_, _), ParseArrayAt(_, _)
RECURSIVE ParseMembers(_, _, _), MemberKey(_, _, _), MemberColon(_, _, _, _)
RECURSIVE MemberValue(_, _, _, _), MemberNext(_, _, _)
RECURSIVE ParseElements(_, _, _), ElementValue(_, _, _), ElementNext(_, _, _)

\* A value, after any whitespace from i on.
ParseValue(s, i) == ParseValueAt(s, SkipWhitespace(s, i))

\* A value starting at i.
ParseValueAt(s, i) ==
    IF i >= Len(s) THEN Fail(i)
    ELSE CASE CharAt(s, i) = "{" -> ParseObjectAt(s, SkipWhitespace(s, i + 1))
           [] CharAt(s, i) = "[" -> ParseArrayAt(s, SkipWhitespace(s, i + 1))
           [] CharAt(s, i) = "\"" -> ParseString(s, i)
           [] CharAt(s, i) \in Digits -> ParseNumber(s, i)
           [] CharAt(s, i) \in {"t", "f", "n"} -> ParseLiteral(s, i)
           [] OTHER -> Fail(i)

\* An object whose first token after the brace is at j.
ParseObjectAt(s, j) ==
    IF j < Len(s) /\ CharAt(s, j) = "}" THEN Ok(j + 1, <<"obj", <<>>>>)
    ELSE ParseMembers(s, j, <<>>)

\* An array whose first token after the bracket is at j.
ParseArrayAt(s, j) ==
    IF j < Len(s) /\ CharAt(s, j) = "]" THEN Ok(j + 1, <<"arr", <<>>>>)
    ELSE ParseElements(s, j, <<>>)

\* The members of an object from the key at i on, up to its closing brace.
ParseMembers(s, i, members) ==
    IF i >= Len(s) \/ CharAt(s, i) # "\"" THEN Fail(i)
    ELSE MemberKey(s, members, ParseString(s, i))

\* ... after the key,
MemberKey(s, members, key) ==
    IF ~key.ok THEN key
    ELSE MemberColon(s, members, key.val[2], SkipWhitespace(s, key.pos))

\* ... at the colon,
MemberColon(s, members, key, colon) ==
    IF colon >= Len(s) \/ CharAt(s, colon) # ":" THEN Fail(colon)
    ELSE MemberValue(s, members, key, ParseValue(s, colon + 1))

\* ... after the value,
MemberValue(s, members, key, val) ==
    IF ~val.ok THEN val
    ELSE MemberNext(s, PutMember(members, key, val.val), SkipWhitespace(s, val.pos))

\* ... at the comma or the closing brace.
MemberNext(s, members, next) ==
    IF next >= Len(s) THEN Fail(next)
    ELSE IF CharAt(s, next) = "}" THEN Ok(next + 1, <<"obj", members>>)
    ELSE IF CharAt(s, next) = "," THEN ParseMembers(s, SkipWhitespace(s, next + 1), members)
    ELSE Fail(next)

\* The elements of an array from i on, up to its closing bracket.
ParseElements(s, i, elements) == ElementValue(s, elements, ParseValue(s, i))

\* ... after the value,
ElementValue(s, elements, val) ==
    IF ~val.ok THEN val
    ELSE ElementNext(s, Append(elements, val.val), SkipWhitespace(s, val.pos))

\* ... at the comma or the closing bracket.
ElementNext(s, elements, next) ==
    IF next >= Len(s) THEN Fail(next)
    ELSE IF CharAt(s, next) = "]" THEN Ok(next + 1, <<"arr", elements>>)
    ELSE IF CharAt(s, next) = "," THEN ParseElements(s, next + 1, elements)
    ELSE Fail(next)

\* The SyntaxError JSON.parse throws: its message names the offending
\* character and its position.
SyntaxError(s, pos) ==
    [name |-> "SyntaxError",
     token |-> IF pos < Len(s) THEN CharAt(s, pos) ELSE "end of input",
     position |-> pos]

NoError == [name |-> "none", token |-> "", position |-> -1]
NoValue == <<"none", <<>>>>

\* The parse of a value that ends at end: nothing may follow it.
JSONparseEnd(s, val, end) ==
    IF end < Len(s)
    THEN [threw |-> TRUE, error |-> SyntaxError(s, end), value |-> NoValue]
    ELSE [threw |-> FALSE, error |-> NoError, value |-> val]

JSONparseValue(s, val) ==
    IF ~val.ok
    THEN [threw |-> TRUE, error |-> SyntaxError(s, val.pos), value |-> NoValue]
    ELSE JSONparseEnd(s, val.val, SkipWhitespace(s, val.pos))

\* JSON.parse(s): the value, or the error thrown.
JSONparse(s) == JSONparseValue(s, ParseValue(s, 0))

\* ------------------------------------------------------- regular expressions

\* The least and the greatest of a non-empty set of indexes.
Least(places) == CHOOSE m \in places : \A n \in places : m <= n
Greatest(places) == CHOOSE m \in places : \A n \in places : n <= m

\* /"travel_plan"\s*:\s*\{[^}]*\}/ tried at index i: the index of the '}'
\* that ends the match ([^}]* runs to the first '}' after the brace), or -1.
TravelPlanBrace(s, brace) ==
    IF brace < Len(s) /\ CharAt(s, brace) = "{"
    THEN IndexOfFrom(s, "}", brace + 1)
    ELSE -1
TravelPlanColon(s, colon) ==
    IF colon < Len(s) /\ CharAt(s, colon) = ":"
    THEN TravelPlanBrace(s, SkipWhitespace(s, colon + 1))
    ELSE -1
TravelPlanEnd(s, i) ==
    IF StartsWithAt(s, TravelPlanKey, i)
    THEN TravelPlanColon(s, SkipWhitespace(s, i + Len(TravelPlanKey)))
    ELSE -1

\* travelPlanMatch[0] for the match at index at.
TravelPlanAt(s, at) == [matched |-> TRUE, str |-> Substring(s, at, TravelPlanEnd(s, at) + 1)]

TravelPlanAmong(s, places) ==
    IF places = {} THEN [matched |-> FALSE, str |-> <<>>]
    ELSE TravelPlanAt(s, Least(places))

\* jsonStr.match(/"travel_plan"\s*:\s*\{[^}]*\}/): the leftmost match, or
\* none.
TravelPlanMatch(s) ==
    TravelPlanAmong(s, {i \in 0..(Len(s) - 1) : TravelPlanEnd(s, i) # -1})

\* ['":\s] and the complement of [^,\n"'}]
LabelSeparators == {"'", "\"", ":"} \cup Whitespace
FieldStoppers == {",", "\n", "\"", "'", "}"}

NotSeparator(c) == c \notin LabelSeparators
IsStopper(c) == c \in FieldStoppers

\* The first index from i on that holds no separator.
SeparatorsEnd(s, i) == FirstIndex(s, i, NotSeparator)

\* The first index from i on that holds a stopper (Len(s) at the end).
FieldEnd(s, i) == FirstIndex(s, i, IsStopper)

\* The label matched without the i flag.
LabelAtCaseSensitive(s, label, i) == StartsWithAt(s, label, i)

\* The label, in any case, at index i.
LabelAt(s, label, i) ==
    /\ i + Len(label) <= Len(s)
    /\ \A k \in 1..Len(label) : LowerChar(s[i + k]) = label[k]

\* Where group 1 can start for the separators running from `from` to upto:
\* on a character the group accepts, with separators only before it.
FieldStartsIn(s, from, upto) ==
    {q \in from..upto : q < Len(s) /\ CharAt(s, q) \notin FieldStoppers}

\* The same for the label at index i, if it stands there.
FieldStarts(s, label, i) ==
    IF LabelAt(s, label, i)
    THEN FieldStartsIn(s, i + Len(label), SeparatorsEnd(s, i + Len(label)))
    ELSE {}

\* Group 1 from its start to the next stopper.
FieldGroup(s, start) == [matched |-> TRUE, group |-> Substring(s, start, FieldEnd(s, start))]

\* The separators are taken greedily and given back one by one until a
\* character the group accepts follows: the group starts at the last place
\* it can.
FieldAmong(s, label, places) ==
    IF places = {} THEN [matched |-> FALSE, group |-> <<>>]
    ELSE FieldGroup(s, Greatest(FieldStarts(s, label, Least(places))))

\* s.match(/<label>['":\s]*([^,\n"'}]+)/i): group 1 of the leftmost match.
FieldMatch(s, label) ==
    FieldAmong(s, label, {i \in 0..(Len(s) - 1) : FieldStarts(s, label, i) # {}})

\* ------------------------------------------------------------- budget figures

\* A JavaScript number: an integer or NaN.
Num(n) == [nan |-> FALSE, n |-> n]
NotANumber == [nan |-> TRUE, n |-> 0]

\* s.replace('$', ''): the first occurrence goes.
RemoveFirstDollar(s) ==
    LET at == IndexOf(s, "$")
    IN  IF at = -1 THEN s
        ELSE Substring(s, 0, at) \o Substring(s, at + 1, Len(s))

RECURSIVE Split(_, _)
\* s.split(c)
Split(s, c) ==
    LET at == IndexOf(s, c)
    IN  IF at = -1 THEN <<s>>
        ELSE <<Substring(s, 0, at)>> \o Split(Substring(s, at + 1, Len(s)), c)

\* parseInt(s): the digits s starts with after any whitespace, else NaN;
\* parseInt(undefined), for a part split() did not produce, is NaN too.
ParseInt(parts, k) ==
    IF k > Len(parts) THEN NotANumber
    ELSE LET s == parts[k]
             from == SkipWhitespace(s, 0)
             upto == DigitsEnd(s, from)
         IN  IF upto = from THEN NotANumber
             ELSE Num(DecimalValue(Substring(s, from, upto)))

\* a * b
Times(a, b) == IF a.nan THEN NotANumber ELSE Num(a.n * b)

DigitChars == <<"0", "1", "2", "3", "4", "5", "6", "7", "8", "9">>

RECURSIVE NumberToString(_)
\* `${n}` for a non-negative integer
NumberToString(n) ==
    IF n < 10 THEN <<DigitChars[n + 1]>>
    ELSE NumberToString(n \div 10) \o <<DigitChars[(n % 10) + 1]>>

\* `${a}`
Interpolate(a) == IF a.nan THEN <<"N", "a", "N">> ELSE NumberToString(a.n)

\* The split without the replace: the '$' stays on the first part.
DailyBudgetRangeWithDollar(daily) == Split(daily, "-")

\* const dailyBudgetRange = mode.daily.replace('$', '').split('-')
DailyBudgetRange(daily) == Split(RemoveFirstDollar(daily), "-")

\* `$${parseInt(dailyBudgetRange[0]) * duration}-${parseInt(dailyBudgetRange[1]) * duration}`
TotalBudget(daily, duration) ==
    LET dailyBudgetRange == DailyBudgetRange(daily)
    IN  <<"$">> \o Interpolate(Times(ParseInt(dailyBudgetRange, 1), duration))
        \o <<"-">> \o Interpolate(Times(ParseInt(dailyBudgetRange, 2), duration))

\* ------------------------------------------------------------------ mode table

Profile(name, emoji, attractions, pace, daily) ==
    [name |-> name, emoji |-> emoji, attractions |-> attractions,
     pace |-> pace, daily |-> daily]

\* The three modeDetails literals, one per synthetic branch.
modeDetailsTextWrap ==
    [k \in {BUDGET, MODERATE, LUXURY} |->
        CASE k = BUDGET ->
               Profile(GoingWithTheFlow, EmojiWave, Attractions2To3, Relaxed, Daily80To120)
          [] k = MODERATE ->
               Profile(ModerateExplorer, EmojiScales, Attractions4To5, Balanced, Daily120To180)
          [] k = LUXURY ->
               Profile(IntenseAdventure, EmojiFire, Attractions6To8, FastPaced, Daily180To250)]

modeDetailsEmpty ==
    [k \in {BUDGET, MODERATE, LUXURY} |->
        CASE k = BUDGET ->
               Profile(GoingWithTheFlow, EmojiWave, Attractions2To3, Relaxed, Daily80To120)
          [] k = MODERATE ->
               Profile(ModerateExplorer, EmojiScales, Attractions4To5, Balanced, Daily120To180)
          [] k = LUXURY ->
               Profile(IntenseAdventure, EmojiFire, Attractions6To8, FastPaced, Daily180To250)]

modeDetailsCatchAll ==
    [k \in {BUDGET, MODERATE, LUXURY} |->
        CASE k = BUDGET ->
               Profile(GoingWithTheFlow, EmojiWave, Attractions2To3, Relaxed, Daily80To120)
          [] k = MODERATE ->
               Profile(ModerateExplorer, EmojiScales, Attractions4To5, Balanced, Daily120To180)
          [] k = LUXURY ->
               Profile(IntenseAdventure, EmojiFire, Attractions6To8, FastPaced, Daily180To250)]

budgetToMode ==
    [k \in {BUDGET, MODERATE, LUXURY} |->
        CASE k = BUDGET -> GoingWithTheFlow
          [] k = MODERATE -> ModerateExplorer
          [] k = LUXURY -> IntenseAdventure]

\* The keys every object literal inherits from Object.prototype, among
\* BudgetValues: reading one yields a function, which is truthy and has
\* none of a profile's properties.
ObjectPrototypeKeys == {CONSTRUCTOR}

\* table[key] || fallback.  An inherited member is what the lookup yields
\* for a key of Object.prototype; value is then not the member (it stands
\* for no string and no profile) and is never read.
LookupOr(table, key, fallback) ==
    IF key \in DOMAIN table THEN [inherited |-> FALSE, value |-> table[key]]
    ELSE IF key \in ObjectPrototypeKeys THEN [inherited |-> TRUE, value |-> fallback]
    ELSE [inherited |-> FALSE, value |-> fallback]

\* travelRequest.budget === 'budget' ? 'High' : travelRequest.budget === 'moderate' ? 'Medium' : 'Low'
Flexibility(budget) ==
    IF budget = BUDGET THEN High
    ELSE IF budget = MODERATE THEN Medium
    ELSE Low

\* s.toLowerCase()
ToLowerCase(s) ==
    IF s = <<>> THEN <<>> ELSE [k \in 1..Len(s) |-> LowerChar(s[k])]

\* ---------------------------------------------------------- response events

\* event.content is a string, an array of content items, or anything else.
StringContent(s) == [kind |-> "string", str |-> s, items |-> <<>>]
ArrayContent(items) == [kind |-> "array", str |-> <<>>, items |-> items]
OtherContent == [kind |-> "other", str |-> <<>>, items |-> <<>>]

TextItem(s) == [type |-> "text", text |-> s]

\* The events the agent collaborator can emit (zypher.runTask's stream).
EventPool ==
    { [type |-> "text", content |-> StringContent(TextPreamble)],
      [type |-> "text", content |-> StringContent(TextMalformed)],
      [type |-> "message",
       content |-> ArrayContent(<<TextItem(TextNoise), TextItem(TextNested),
                                  [type |-> "image", text |-> <<>>],
                                  TextItem(TextTail)>>)],
      [type |-> "message", content |-> StringContent(TextStrictPlan)],
      [type |-> "text", content |-> StringContent(TextRelaxedPlan)],
      [type |-> "text", content |-> StringContent(TextBrokenPlan)],
      [type |-> "text", content |-> StringContent(TextOpenLabels)],
      [type |-> "text", content |-> StringContent(TextBareLabel)],
      [type |-> "message", content |-> StringContent(TextErrorShaped)],
      [type |-> "message", content |-> ArrayContent(<<TextItem(TextClose)>>)],
      [type |-> "text", content |-> OtherContent],
      [type |-> "message", content |-> OtherContent],
      [type |-> "tool_use", content |-> OtherContent],
      [type |-> "tool_result", content |-> StringContent(TextTail)] }

\* ------------------------------------------------------------------ requests

BudgetTiers == {BUDGET, MODERATE, LUXURY}
\* A request body may carry any budget, or none: a missing property reads
\* as undefined, which is "undefined" as a key and when interpolated.
BudgetValues ==
    BudgetTiers \cup {<<"p", "r", "e", "m", "i", "u", "m">>,
                      <<"u", "n", "d", "e", "f", "i", "n", "e", "d">>,
                      CONSTRUCTOR}

TravelRequests ==
    [destination : {Tokyo}, duration : 1..MaxDuration, budget : BudgetValues]

\* --------------------------------------------------------------------- state

VARIABLES
    pc,             \* "stream" (in the for-await loop), "done" or "failed"
    travelRequest,  \* the decoded request body
    events,         \* the events delivered so far, in arrival order
    fullResponse,   \* the accumulated text
    scan,           \* jsonStart, jsonEnd and jsonStr of the brace scan
    planData,       \* the plan data (null until reconciliation)
    tier,           \* which branch built planData
    response,       \* the HTTP response returned
    handlers        \* the locals of each handler invocation in flight at once

vars == <<pc, travelRequest, events, fullResponse, scan, planData, tier, response,
          handlers>>

Null == [type |-> "null"]
NotScanned == [jsonStart |-> -1, jsonEnd |-> -1, jsonStr |-> <<>>]
NoResponse == [status |-> 0]

\* ------------------------------------------------------------ stream consumer

RECURSIVE ItemsText(_)
\* for (const item of content) if (item.type === "text") fullResponse += item.text
ItemsText(items) ==
    IF items = <<>> THEN <<>>
    ELSE (IF Head(items).type = "text" THEN Head(items).text ELSE <<>>)
         \o ItemsText(Tail(items))

\* A loop body that appends string contents only, never an array's items.
AppendedStringsOnly(event) ==
    IF event.type \in {"text", "message"} /\ event.content.kind = "string"
    THEN event.content.str
    ELSE <<>>

\* A loop body that appends a string content whatever the event's type.
AppendedAnyString(event) ==
    IF event.content.kind = "string" THEN event.content.str
    ELSE IF event.type = "message" /\ event.content.kind = "array"
    THEN ItemsText(event.content.items)
    ELSE <<>>

\* What one pass of the loop body appends to fullResponse.
Appended(event) ==
    IF event.type = "text"
    THEN IF event.content.kind = "string" THEN event.content.str ELSE <<>>
    ELSE IF event.type = "message"
    THEN IF event.content.kind = "string" THEN event.content.str
         ELSE IF event.content.kind = "array" THEN ItemsText(event.content.items)
         ELSE <<>>
    ELSE <<>>

\* ------------------------------------------------------------ reconciliation

\* An error object: its name, and what its message says.
Error(name, token, position) == [name |-> name, token |-> token, position |-> position]
IncompleteJson == Error("Error: Incomplete JSON in response", "", -1)
\* mode.daily is undefined on an inherited member, and undefined has no replace.
DailyUndefined == Error("TypeError: mode.daily is undefined", "", -1)

\* The outcome of a block: the exception it threw, or planData as it built it.
Thrown(error) == [threw |-> TRUE, error |-> error, planData |-> Null, tier |-> "none"]
Built(plan, by) == [threw |-> FALSE, error |-> NoError, planData |-> plan, tier |-> by]

\* planData as JSON.parse returned it.
Parsed(value) == [type |-> "object", value |-> value]

\* const selectedMode = budgetToMode[travelRequest.budget] || 'Moderate Explorer'
SelectedMode(req) == LookupOr(budgetToMode, req.budget, ModerateExplorer)

\* The values the task template interpolates (its fixed words are left out).
Task(req) ==
    [selectedMode |-> SelectedMode(req), destination |-> req.destination,
     duration |-> req.duration, budget |-> req.budget]

\* The two parses in the other order: the travel_plan parse first.
ParseCandidateRelaxedFirst(jsonStr) ==
    LET travelPlanMatch == TravelPlanMatch(jsonStr)
    IN  IF travelPlanMatch.matched
        THEN Built(Parsed(JSONparse(<<"{">> \o travelPlanMatch.str \o <<"}">>).value),
                   "relaxed")
        ELSE Built(Parsed(JSONparse(jsonStr).value), "strict")

\* Lines 181-194: the strict parse, then the travel_plan parse.
ParseCandidate(jsonStr) ==
    LET strict == JSONparse(jsonStr)
        travelPlanMatch == TravelPlanMatch(jsonStr)
        simplifiedJson == <<"{">> \o travelPlanMatch.str \o <<"}">>
        relaxed == JSONparse(simplifiedJson)
    IN  IF ~strict.threw THEN Built(Parsed(strict.value), "strict")
        ELSE IF travelPlanMatch.matched
        THEN IF relaxed.threw THEN Thrown(relaxed.error)
             ELSE Built(Parsed(relaxed.value), "relaxed")
        ELSE Thrown(strict.error)

\* Lines 200-231: the response holds text and no '{'.
TextWrapPlan(text, req) ==
    LET found == LookupOr(modeDetailsTextWrap, req.budget, modeDetailsTextWrap[MODERATE])
        mode == found.value
        totalBudget == TotalBudget(mode.daily, req.duration)
    IN  IF found.inherited THEN Thrown(DailyUndefined)
        ELSE Built(
            [type |-> "object",
             plans |-> <<[mode_name |-> mode.name,
                          mode_emoji |-> mode.emoji,
                          daily_attractions |-> mode.attractions,
                          pace |-> mode.pace,
                          daily_budget |-> mode.daily,
                          total_budget |-> totalBudget,
                          flexibility |-> Flexibility(req.budget),
                          description |-> CustomizedPrefix \o ToLowerCase(mode.name)
                                          \o PlanForYour \o req.budget
                                          \o BudgetAndPreferences,
                          detailed_plan |-> text]>>,
             selected_mode |-> mode.name,
             full_ai_response |-> text,
             debug_info |-> [response_length |-> Len(text),
                             has_destination |->
                                 \E i \in 0..Len(text) :
                                     StartsWithAt(text, req.destination, i),
                             budget_selected |-> req.budget]],
            "text_wrap")

\* The empty response handled as any other text without JSON.
EmptyAsTextWrap(req) == TextWrapPlan(<<>>, req)

\* Lines 234-265: the response is empty.
EmptyResponsePlan(req) ==
    LET found == LookupOr(modeDetailsEmpty, req.budget, modeDetailsEmpty[MODERATE])
        mode == found.value
        totalBudget == TotalBudget(mode.daily, req.duration)
    IN  IF found.inherited THEN Thrown(DailyUndefined)
        ELSE Built(
            [type |-> "object",
             plans |-> <<[mode_name |-> mode.name,
                          mode_emoji |-> mode.emoji,
                          daily_attractions |-> mode.attractions,
                          pace |-> mode.pace,
                          daily_budget |-> mode.daily,
                          total_budget |-> totalBudget,
                          flexibility |-> Flexibility(req.budget),
                          description |-> mode.name \o PlanForYour \o req.budget
                                          \o BudgetSuffix,
                          detailed_plan |-> SamplePlanFor \o req.destination
                                            \o AiResponseWasEmpty]>>,
             selected_mode |-> mode.name,
             full_ai_response |-> NoAiResponseReceived,
             debug_info |-> [response_length |-> 0,
                             task_sent |-> Task(req),
                             budget_selected |-> req.budget]],
            "empty_response")

\* A try block that wraps the trimmed text.
TryBlockOnTrimmed(found, text, req) ==
    IF found.jsonStart # -1
    THEN IF found.jsonEnd # -1 THEN ParseCandidate(found.jsonStr)
         ELSE Thrown(IncompleteJson)
    ELSE IF Len(text) > 0 THEN TextWrapPlan(Trim(text), req)
    ELSE EmptyResponsePlan(req)

\* A try block that wraps a text whose object never closes.
TryBlockOnOpenWrapped(found, text, req) ==
    IF found.jsonStart # -1 /\ found.jsonEnd # -1 THEN ParseCandidate(found.jsonStr)
    ELSE IF Len(text) > 0 THEN TextWrapPlan(text, req)
    ELSE EmptyResponsePlan(req)

\* Lines 157-266: the try block, given the brace scan of the text.
TryBlockOn(found, text, req) ==
    IF found.jsonStart # -1
    THEN IF found.jsonEnd # -1 THEN ParseCandidate(found.jsonStr)
         ELSE Thrown(IncompleteJson)
    ELSE IF Len(text) > 0 THEN TextWrapPlan(text, req)
    ELSE EmptyResponsePlan(req)

TryBlock(text, req) == TryBlockOn(BraceScan(text), text, req)

\* match ? match[1].trim().replace(/['"]/g, '') : fallback
Extracted(match, fallback) ==
    IF match.matched THEN <<"str", RemoveQuotes(Trim(match.group))>> ELSE fallback

\* Lines 267-322: the catch block, entered with what the try block threw.
CatchBlock(text, req, parseError) ==
    LET destinationMatch == FieldMatch(text, LabelDestination)
        durationMatch == FieldMatch(text, LabelDuration)
        modeMatch == FieldMatch(text, LabelMode)
        extractedDestination == Extracted(destinationMatch, <<"str", req.destination>>)
        extractedDuration == Extracted(durationMatch, <<"num", req.duration>>)
        extractedMode == Extracted(modeMatch, <<"str", SelectedMode(req).value>>)
        found == LookupOr(modeDetailsCatchAll, req.budget, modeDetailsCatchAll[MODERATE])
        mode == found.value
        totalBudget == TotalBudget(mode.daily, req.duration)
    IN  IF found.inherited THEN Thrown(DailyUndefined)
        ELSE Built(
            [type |-> "object",
             plans |-> <<[mode_name |-> mode.name,
                          mode_emoji |-> mode.emoji,
                          daily_attractions |-> mode.attractions,
                          pace |-> mode.pace,
                          daily_budget |-> mode.daily,
                          total_budget |-> totalBudget,
                          flexibility |-> Flexibility(req.budget),
                          description |-> AiGeneratedPrefix \o ToLowerCase(mode.name)
                                          \o PlanFor \o extractedDestination[2],
                          detailed_plan |-> text]>>,
             selected_mode |-> mode.name,
             full_ai_response |-> text,
             debug_info |-> [response_length |-> Len(text),
                             parse_error |-> parseError,
                             extracted_info |-> [destination |-> extractedDestination,
                                                 duration |-> extractedDuration,
                                                 mode |-> extractedMode],
                             json_extraction_failed |-> TRUE,
                             using_full_response_as_plan |-> TRUE]],
            "catch_all")

\* A try block with no catch: what it throws escapes.
CaughtNothing(tried, text, req) == tried

\* A catch block that builds the Going with the Flow plan whenever the text
\* names a mode.
CaughtOnRecovered(tried, text, req) ==
    IF tried.threw
    THEN CatchBlock(text,
                    [req EXCEPT !.budget =
                        IF FieldMatch(text, LabelMode).matched THEN BUDGET ELSE @],
                    tried.error)
    ELSE tried

\* catch (parseError) of line 267: entered only if the try block threw.
Caught(tried, text, req) ==
    IF tried.threw THEN CatchBlock(text, req, tried.error) ELSE tried

\* Lines 157-322: the try block, and the catch block for what it threw.
Reconcile(text, req) == Caught(TryBlock(text, req), text, req)

\* ------------------------------------------------------------------- actions

Init ==
    /\ pc = "stream"
    /\ travelRequest \in TravelRequests
    /\ events = <<>>
    /\ fullResponse = <<>>
    /\ scan = NotScanned
    /\ planData = Null
    /\ tier = "none"
    /\ response = NoResponse
    /\ handlers = <<>>

\* One iteration of for await (const event of eachValueFrom(event$)).
Deliver ==
    /\ pc = "stream"
    /\ Len(events) < MaxEvents
    /\ \E event \in EventPool :
        /\ events' = Append(events, event)
        /\ fullResponse' = fullResponse \o Appended(event)
    /\ UNCHANGED <<pc, travelRequest, scan, planData, tier, response, handlers>>

\* The stream is exhausted: lines 153-329, and the outer catch of lines
\* 330-342 for what escapes them.
Complete ==
    /\ pc = "stream"
    /\ \E outcome \in {Reconcile(fullResponse, travelRequest)} :
           /\ planData' = outcome.planData
           /\ tier' = outcome.tier
           /\ response' =
                IF outcome.threw
                THEN [status |-> 500,
                      body |-> [error |-> "Failed to generate plans",
                                details |-> outcome.error]]
                ELSE [status |-> 200, body |-> outcome.planData]
    /\ scan' = BraceScan(fullResponse)
    /\ pc' = "done"
    /\ UNCHANGED <<travelRequest, events, fullResponse, handlers>>

\* A handler that answers a failed stream with a plan built from the text
\* received so far.
StreamErrorSalvaged ==
    /\ pc = "stream"
    /\ pc' = "failed"
    /\ \E outcome \in {Reconcile(fullResponse, travelRequest)} :
           /\ planData' = outcome.planData
           /\ tier' = outcome.tier
           /\ response' = [status |-> 200, body |-> outcome.planData]
    /\ UNCHANGED <<travelRequest, events, fullResponse, scan, handlers>>

\* The collaborator's stream raises: the outer catch of lines 330-342.
StreamError ==
    /\ pc = "stream"
    /\ pc' = "failed"
    /\ response' = [status |-> 500,
                    body |-> [error |-> "Failed to generate plans",
                              details |-> Error("Error: stream", "", -1)]]
    /\ UNCHANGED <<travelRequest, events, fullResponse, scan, planData, tier, handlers>>

Next == Deliver \/ Complete \/ StreamError

Spec == Init /\ [][Next]_vars

\* ------------------------------------------- the travel_plan_generator tool


\* `$${low * request.duration}-${high * request.duration}`
ToolTotalBudget(low, high, request) ==
    <<"$">> \o NumberToString(low * request.duration)
    \o <<"-">> \o NumberToString(high * request.duration)

generateFlowPlan(request) ==
    [mode_name |-> GoingWithTheFlow,
     mode_emoji |-> EmojiWave,
     daily_attractions |-> Attractions2To3,
     pace |-> Relaxed,
     daily_budget |-> Daily80To120,
     total_budget |-> ToolTotalBudget(80, 120, request),
     flexibility |-> High,
     description |->
        <<"P", "e", "r", "f", "e", "c", "t", " ", "f", "o", "r", " ", "a", " ", "r", "e", "l", "a", "x", "e", "d", " ", "e", "x", "p", "l", "o", "r", "a", "t", "i", "o", "n", " ", "w", "i", "t", "h", " ", "p", "l", "e", "n", "t", "y", " ", "o", "f", " ", "t", "i", "m", "e", " ", "t", "o", " ", "s", "o", "a", "k", " ", "i", "n", " ", "t", "h", "e", " ", "a", "t", "m", "o", "s", "p", "h", "e", "r", "e", ".">>]

generateModeratePlan(request) ==
    [mode_name |-> ModerateExplorer,
     mode_emoji |-> EmojiScales,
     daily_attractions |-> Attractions4To5,
     pace |-> Balanced,
     daily_budget |-> Daily120To180,
     total_budget |-> ToolTotalBudget(120, 180, request),
     flexibility |-> Medium,
     description |->
        <<"A", " ", "b", "a", "l", "a", "n", "c", "e", "d", " ", "a", "p", "p", "r", "o", "a", "c", "h", " ", "c", "o", "m", "b", "i", "n", "i", "n", "g", " ", "m", "u", "s", "t", "-", "s", "e", "e", " ", "a", "t", "t", "r", "a", "c", "t", "i", "o", "n", "s", " ", "w", "i", "t", "h", " ", "l", "o", "c", "a", "l", " ", "e", "x", "p", "e", "r", "i", "e", "n", "c", "e", "s", ".">>]

generateIntensePlan(request) ==
    [mode_name |-> IntenseAdventure,
     mode_emoji |-> EmojiFire,
     daily_attractions |-> Attractions6To8,
     pace |-> FastPaced,
     daily_budget |-> Daily180To250,
     total_budget |-> ToolTotalBudget(180, 250, request),
     flexibility |-> Low,
     description |->
        <<"M", "a", "x", "i", "m", "u", "m", " ", "e", "x", "p", "l", "o", "r", "a", "t", "i", "o", "n", " ", "w", "i", "t", "h", " ", "p", "a", "c", "k", "e", "d", " ", "i", "t", "i", "n", "e", "r", "a", "r", "i", "e", "s", " ", "f", "o", "r", " ", "c", "o", "m", "p", "r", "e", "h", "e", "n", "s", "i", "v", "e", " ", "c", "o", "v", "e", "r", "a", "g", "e", ".">>]

\* ------------------------------------------------------- concurrent requests

\* Deno.serve calls the handler once per request; invocations in flight at
\* once run on one event loop and yield to each other only at an await: at
\* each iteration of the for-await loop. From the end of the loop to the
\* return there is no await.
Invocations == {1, 2}

\* The events and the requests of the invocations in flight at once.
ConcurrentPool ==
    { [type |-> "text", content |-> StringContent(TextPreamble)],
      [type |-> "message", content |-> StringContent(TextStrictPlan)],
      [type |-> "tool_result", content |-> StringContent(TextTail)] }

\* The locals of an invocation as it enters the for-await loop.
Locals(req) ==
    [pc |-> "stream", travelRequest |-> req, events |-> <<>>, fullResponse |-> <<>>,
     planData |-> Null, tier |-> "none", response |-> NoResponse]

\* A loop body that appends to a buffer all invocations share.
DeliveredToShared(all, h, event) ==
    [k \in DOMAIN all |->
        [all[k] EXCEPT !.events = IF k = h THEN Append(@, event) ELSE @,
                       !.fullResponse = @ \o Appended(event)]]

\* One iteration of invocation h's loop: fullResponse is a local of h.
DeliveredTo(all, h, event) ==
    [all EXCEPT ![h].events = Append(@, event),
                ![h].fullResponse = @ \o Appended(event)]

\* Lines 153-342 for one invocation, given what its reconciliation gave.
Responded(local, outcome) ==
    [local EXCEPT !.pc = "done",
                  !.planData = outcome.planData,
                  !.tier = outcome.tier,
                  !.response =
                      IF outcome.threw
                      THEN [status |-> 500,
                            body |-> [error |-> "Failed to generate plans",
                                      details |-> outcome.error]]
                      ELSE [status |-> 200, body |-> outcome.planData]]

InitConcurrent ==
    /\ pc = "stream"
    /\ travelRequest = [destination |-> Tokyo, duration |-> 1, budget |-> MODERATE]
    /\ events = <<>>
    /\ fullResponse = <<>>
    /\ scan = NotScanned
    /\ planData = Null
    /\ tier = "none"
    /\ response = NoResponse
    /\ handlers \in [Invocations ->
                        {Locals(req) : req \in [destination : {Tokyo},
                                                duration : {MaxDuration},
                                                budget : {BUDGET, LUXURY}]}]

DeliverTo(h) ==
    /\ handlers[h].pc = "stream"
    /\ Len(handlers[h].events) < MaxEvents
    /\ \E event \in ConcurrentPool : handlers' = DeliveredTo(handlers, h, event)
    /\ UNCHANGED <<pc, travelRequest, events, fullResponse, scan, planData, tier,
                   response>>

CompleteOf(h) ==
    /\ handlers[h].pc = "stream"
    /\ \E outcome \in {Reconcile(handlers[h].fullResponse, handlers[h].travelRequest)} :
           handlers' = [handlers EXCEPT ![h] = Responded(@, outcome)]
    /\ UNCHANGED <<pc, travelRequest, events, fullResponse, scan, planData, tier,
                   response>>

StreamErrorOf(h) ==
    /\ handlers[h].pc = "stream"
    /\ handlers' =
          [handlers EXCEPT
              ![h].pc = "failed",
              ![h].response =
                  [status |-> 500,
                   body |-> [error |-> "Failed to generate plans",
                             details |-> Error("Error: stream", "", -1)]]]
    /\ UNCHANGED <<pc, travelRequest, events, fullResponse, scan, planData, tier,
                   response>>

NextConcurrent ==
    \E h \in Invocations : DeliverTo(h) \/ CompleteOf(h) \/ StreamErrorOf(h)

SpecConcurrent == InitConcurrent /\ [][NextConcurrent]_vars

\* ---------------------------------------------------------------- properties

SyntheticTiers == {"text_wrap", "empty_response", "catch_all"}
\* The request's budget is one of the three tiers of the data model.
ValidRequest == travelRequest.budget \in BudgetTiers
\* The one plan of a synthetic planData.
ThePlan == planData.plans[1]

\* How often c occurs in s.
Count(s, c) == Cardinality({k \in 1..Len(s) : s[k] = c})
\* The 1-based place of the first '{' and of the last '}' of s.
FirstOpen(s) == CHOOSE k \in 1..Len(s) : s[k] = "{" /\ \A j \in 1..(k - 1) : s[j] # "{"
LastClose(s) == CHOOSE k \in 1..Len(s) : s[k] = "}" /\ \A j \in (k + 1)..Len(s) : s[j] # "}"
\* s[from..to] holds as many '{' as '}'.
Levelled(s, from, to) == Count(SubSeq(s, from, to), "{") = Count(SubSeq(s, from, to), "}")
\* The places of the '}' from the first '{' on where the depth is back at zero.
LevelPlaces(s) ==
    {k \in FirstOpen(s)..Len(s) : s[k] = "}" /\ Levelled(s, FirstOpen(s), k)}
FirstLevelPlace(s) == CHOOSE k \in LevelPlaces(s) : \A j \in LevelPlaces(s) : k <= j
\* s has a balanced candidate, and which.
HasCandidate(s) == Count(s, "{") > 0 /\ LevelPlaces(s) # {}
CandidateOf(s) == SubSeq(s, FirstOpen(s), FirstLevelPlace(s))
\* s is brace-free text, one balanced-brace object, brace-free text.
WrapsOneObject(s) ==
    /\ Count(s, "{") > 0 /\ Count(s, "}") > 0
    /\ \A k \in 1..Len(s) : s[k] \in {"{", "}"} => FirstOpen(s) <= k /\ k <= LastClose(s)
    /\ LevelPlaces(s) = {LastClose(s)}

\* C1: once the stream is exhausted, a valid request gets a non-null plan
\* object in a normal response; nothing escapes to the outer handler.
C1_Totality ==
    (pc = "done" /\ ValidRequest) =>
        /\ response.status = 200
        /\ tier # "none"
        /\ planData.type = "object"
        /\ response.body = planData

\* The cascade ran to its last step: strict parse failed, the travel_plan
\* pattern matched, its parse failed too, and the catch-all built the plan.
C1_Witness ==
    /\ pc = "done" /\ ValidRequest
    /\ scan.jsonStr = TextBrokenPlan
    /\ tier = "catch_all"
    /\ response.status = 200

\* C2: a candidate that parses strictly is the plan data as parsed, whatever
\* travel_plan pattern the text holds; the relaxed parse and the synthetic
\* tiers run only after the strict parse failed or no candidate was found.
C2_TierOrdering ==
    pc = "done" =>
        /\ (HasCandidate(fullResponse) /\ ~JSONparse(CandidateOf(fullResponse)).threw) =>
              /\ tier = "strict"
              /\ planData = Parsed(JSONparse(CandidateOf(fullResponse)).value)
              /\ response.body = planData
        /\ tier = "relaxed" =>
              HasCandidate(fullResponse) /\ JSONparse(CandidateOf(fullResponse)).threw
        /\ tier \in SyntheticTiers =>
              \/ ~HasCandidate(fullResponse)
              \/ JSONparse(CandidateOf(fullResponse)).threw

\* A valid candidate that also holds a travel_plan object and more.
C2_Witness ==
    /\ pc = "done"
    /\ scan.jsonStr = TextStrictPlan
    /\ TravelPlanMatch(scan.jsonStr).matched
    /\ tier = "strict"

\* C3: the candidate runs from the first '{' to the '}' where the depth is
\* first back at zero; for brace-free text around one balanced object it is
\* that object.
C3_BalancedExtraction ==
    pc = "done" =>
        /\ HasCandidate(fullResponse) =>
              /\ scan.jsonStr = CandidateOf(fullResponse)
              /\ scan.jsonStart = FirstOpen(fullResponse) - 1
              /\ scan.jsonEnd = FirstLevelPlace(fullResponse) - 1
        /\ WrapsOneObject(fullResponse) =>
              scan.jsonStr = SubSeq(fullResponse, FirstOpen(fullResponse),
                                    LastClose(fullResponse))

\* noise{"a":{"b":1}}tail
C3_Witness ==
    /\ pc = "done"
    /\ fullResponse = TextNoise \o TextNested \o TextTail
    /\ WrapsOneObject(fullResponse)
    /\ scan.jsonStr = TextNested

RECURSIVE Concatenation(_)
\* The texts of a sequence, joined in order.
Concatenation(texts) ==
    IF texts = <<>> THEN <<>> ELSE Head(texts) \o Concatenation(Tail(texts))

\* The text of a content item, and of an event.
ItemContribution(item) == IF item.type = "text" THEN item.text ELSE <<>>
Contribution(event) ==
    CASE event.type \in {"text", "message"} /\ event.content.kind = "string" ->
           event.content.str
      [] event.type = "message" /\ event.content.kind = "array" ->
           Concatenation([k \in 1..Len(event.content.items) |->
                             ItemContribution(event.content.items[k])])
      [] OTHER -> <<>>

\* C4: after the stream, the accumulated text is the events' textual
\* contributions joined in arrival order.
C4_StreamResult ==
    pc = "done" =>
        fullResponse = Concatenation([k \in 1..Len(events) |-> Contribution(events[k])])

\* An array message with a non-text item, then a text event.
C4_Witness ==
    /\ pc = "done"
    /\ Len(events) = 2
    /\ events[1].type = "message" /\ events[1].content.kind = "array"
    /\ Len(events[1].content.items) = 4
    /\ events[2].type = "text"
    /\ fullResponse = TextNoise \o TextNested \o TextTail \o TextPreamble

\* The attributes the mode table gives a budget tier.
ExpectedProfile(budget) ==
    CASE budget = BUDGET ->
           [name |-> GoingWithTheFlow, attractions |-> Attractions2To3,
            pace |-> Relaxed, daily |-> Daily80To120]
      [] budget = LUXURY ->
           [name |-> IntenseAdventure, attractions |-> Attractions6To8,
            pace |-> FastPaced, daily |-> Daily180To250]
      [] OTHER ->
           [name |-> ModerateExplorer, attractions |-> Attractions4To5,
            pace |-> Balanced, daily |-> Daily120To180]

\* The plan carries the attributes of a profile.
CarriesProfile(plan, profile) ==
    /\ plan.mode_name = profile.name
    /\ plan.daily_attractions = profile.attractions
    /\ plan.pace = profile.pace
    /\ plan.daily_budget = profile.daily

\* C5: a budget outside the three tiers, or none, gets the moderate profile
\* in every synthetic tier; the lookup never fails.
C5_DefaultTier ==
    (/\ pc = "done"
     /\ travelRequest.budget \notin BudgetTiers
     /\ tier \notin {"strict", "relaxed"}) =>
        /\ response.status = 200
        /\ tier \in SyntheticTiers
        /\ CarriesProfile(ThePlan, ExpectedProfile(MODERATE))
        /\ planData.selected_mode = ModerateExplorer

\* C6: a budget outside the three tiers, or none, gets the flexibility of
\* the moderate profile, Medium, in every synthetic tier.
C6_DefaultFlexibility ==
    (/\ pc = "done"
     /\ travelRequest.budget \notin BudgetTiers
     /\ tier \in SyntheticTiers) =>
        ThePlan.flexibility = Medium

\* The low and high figures of a daily band.
BandOf(daily) ==
    CASE daily = Daily80To120 -> <<80, 120>>
      [] daily = Daily120To180 -> <<120, 180>>
      [] daily = Daily180To250 -> <<180, 250>>

\* s is the decimal numeral of n: digits only, no leading zero.
IsNumeralOf(s, n) ==
    /\ Len(s) >= 1
    /\ \A k \in 1..Len(s) : s[k] \in Digits
    /\ (Len(s) > 1 => s[1] # "0")
    /\ DecimalValue(s) = n

\* total reads $<low>-<high>.
ReadsAs(total, low, high) ==
    /\ Len(total) >= 4
    /\ total[1] = "$"
    /\ Count(total, "-") = 1
    /\ \E dash \in 3..(Len(total) - 1) :
          /\ total[dash] = "-"
          /\ IsNumeralOf(SubSeq(total, 2, dash - 1), low)
          /\ IsNumeralOf(SubSeq(total, dash + 1, Len(total)), high)

\* C7: a synthetic plan's total budget reads $<low*d>-<high*d> for its daily
\* band $<low>-<high> and the request's duration d, low total first.
C7_BudgetArithmetic ==
    (pc = "done" /\ tier \in SyntheticTiers) =>
        /\ ReadsAs(ThePlan.total_budget,
                   BandOf(ThePlan.daily_budget)[1] * travelRequest.duration,
                   BandOf(ThePlan.daily_budget)[2] * travelRequest.duration)
        /\ BandOf(ThePlan.daily_budget)[1] * travelRequest.duration
              <= BandOf(ThePlan.daily_budget)[2] * travelRequest.duration
        /\ (ThePlan.daily_budget = Daily120To180 /\ travelRequest.duration = 5) =>
              ThePlan.total_budget = <<"$", "6", "0", "0", "-", "9", "0", "0">>

\* Band $120-180, five days.
C7_Witness ==
    /\ pc = "done"
    /\ tier = "text_wrap"
    /\ travelRequest.budget = MODERATE
    /\ travelRequest.duration = 5
    /\ ThePlan.total_budget = <<"$", "6", "0", "0", "-", "9", "0", "0">>

\* C8: an empty accumulated text gives the empty-response plan: the tier's
\* attributes, band times duration, and the placeholder.
C8_EmptyInput ==
    (pc = "done" /\ fullResponse = <<>> /\ ValidRequest) =>
        /\ response.status = 200
        /\ tier = "empty_response"
        /\ Len(planData.plans) = 1
        /\ CarriesProfile(ThePlan, ExpectedProfile(travelRequest.budget))
        /\ ReadsAs(ThePlan.total_budget,
                   BandOf(ThePlan.daily_budget)[1] * travelRequest.duration,
                   BandOf(ThePlan.daily_budget)[2] * travelRequest.duration)
        /\ ThePlan.detailed_plan =
              SamplePlanFor \o travelRequest.destination \o AiResponseWasEmpty
        /\ (/\ travelRequest.destination = Tokyo
            /\ travelRequest.duration = 3
            /\ travelRequest.budget = LUXURY) =>
              /\ ThePlan.mode_name = IntenseAdventure
              /\ ThePlan.total_budget = <<"$", "5", "4", "0", "-", "7", "5", "0">>

\* Tokyo, three days, luxury, and events that carry no text.
C8_Witness ==
    /\ pc = "done"
    /\ Len(events) = 2
    /\ fullResponse = <<>>
    /\ travelRequest = [destination |-> Tokyo, duration |-> 3, budget |-> LUXURY]
    /\ tier = "empty_response"
    /\ ThePlan.total_budget = <<"$", "5", "4", "0", "-", "7", "5", "0">>

\* The 0-based places where the label stands in s, in any case.
LabelPlaces(s, label) ==
    LET folded == ToLowerCase(s)
    IN  {i \in 0..(Len(s) - Len(label)) :
            SubSeq(folded, i + 1, i + Len(label)) = label}
\* Where group 1 may start for the label at i: after separators only, on a
\* character that is no stopper.
GroupStarts(s, label, i) ==
    {q \in (i + Len(label))..(Len(s) - 1) :
        /\ \A k \in (i + Len(label))..(q - 1) : s[k + 1] \in LabelSeparators
        /\ s[q + 1] \notin FieldStoppers}
\* The label places where the pattern matches.
MatchPlaces(s, label) == {i \in LabelPlaces(s, label) : GroupStarts(s, label, i) # {}}
PatternMatches(s, label) == MatchPlaces(s, label) # {}
\* Group 1 of the leftmost match: from the last start it may take, up to
\* the next stopper.
PatternGroup(s, label) ==
    LET i == CHOOSE m \in MatchPlaces(s, label) : \A n \in MatchPlaces(s, label) : m <= n
        q == CHOOSE m \in GroupStarts(s, label, i) :
                \A n \in GroupStarts(s, label, i) : n <= m
        stops == {e \in (q + 1)..Len(s) : e = Len(s) \/ s[e + 1] \in FieldStoppers}
        e == CHOOSE m \in stops : \A n \in stops : m <= n
    IN  SubSeq(s, q + 1, e)
\* The group as recovered: trimmed, quotes removed.
PatternValue(s, label) == <<"str", RemoveQuotes(Trim(PatternGroup(s, label)))>>

\* What a field is recovered as, by the pattern and by the label alone
\* (None where the label occurs and the pattern does not match).
RecoveredByPattern(s, label, own) ==
    IF PatternMatches(s, label) THEN PatternValue(s, label) ELSE own
RecoveredByLabel(s, label, own) ==
    IF LabelPlaces(s, label) = {} THEN own
    ELSE IF PatternMatches(s, label) THEN PatternValue(s, label)
    ELSE <<"none", <<>>>>

ExtractedInfo == planData.debug_info.extracted_info
\* The name the request's budget selects.
RequestMode == <<"str", ExpectedProfile(travelRequest.budget).name>>

\* C9 as stated: the recovered value is the pattern-matched one whenever the
\* label occurs in the text, and the request's own otherwise.
C9_RecoveryByLabel ==
    (pc = "done" /\ tier = "catch_all") =>
        /\ ExtractedInfo.destination =
              RecoveredByLabel(fullResponse, LabelDestination, <<"str", travelRequest.destination>>)
        /\ ExtractedInfo.duration =
              RecoveredByLabel(fullResponse, LabelDuration, <<"num", travelRequest.duration>>)
        /\ ExtractedInfo.mode =
              RecoveredByLabel(fullResponse, LabelMode, RequestMode)

\* C9, amended: a candidate that neither parse accepts gives the catch-all
\* plan, whose debug info records the syntax error and, per field, the
\* pattern-matched value when the pattern matches and the request's own
\* otherwise.
C9_MalformedRecovery ==
    /\ (/\ pc = "done" /\ ValidRequest
        /\ scan.jsonEnd # -1
        /\ tier \notin {"strict", "relaxed"}) =>
          /\ response.status = 200
          /\ tier = "catch_all"
          /\ planData.debug_info.parse_error.name = "SyntaxError"
    /\ (pc = "done" /\ tier = "catch_all") =>
          /\ ExtractedInfo.destination =
                RecoveredByPattern(fullResponse, LabelDestination, <<"str", travelRequest.destination>>)
          /\ ExtractedInfo.duration =
                RecoveredByPattern(fullResponse, LabelDuration, <<"num", travelRequest.duration>>)
          /\ ExtractedInfo.mode =
                RecoveredByPattern(fullResponse, LabelMode, RequestMode)
          /\ fullResponse = TextPreamble \o TextMalformed =>
                ExtractedInfo.mode = <<"str", Flow>>

\* Here is the plan: {"mode": "Flow", oops}
C9_Witness ==
    /\ pc = "done"
    /\ fullResponse = TextPreamble \o TextMalformed
    /\ tier = "catch_all"
    /\ planData.debug_info.parse_error.name = "SyntaxError"
    /\ ExtractedInfo.mode = <<"str", Flow>>
    /\ ExtractedInfo.destination = <<"str", travelRequest.destination>>
    /\ ExtractedInfo.duration = <<"num", travelRequest.duration>>

\* C10: a non-empty text with no '{' is wrapped whole: it is the detailed
\* plan and the full AI response, under the budget tier's attributes.
C10_TextWrap ==
    (/\ pc = "done" /\ ValidRequest
     /\ fullResponse # <<>>
     /\ Count(fullResponse, "{") = 0) =>
        /\ response.status = 200
        /\ tier = "text_wrap"
        /\ Len(planData.plans) = 1
        /\ ThePlan.detailed_plan = fullResponse
        /\ planData.full_ai_response = fullResponse
        /\ CarriesProfile(ThePlan, ExpectedProfile(travelRequest.budget))
        /\ planData.selected_mode = ExpectedProfile(travelRequest.budget).name

\* Text of two events, ending in a space, with no brace.
C10_Witness ==
    /\ pc = "done" /\ ValidRequest
    /\ Len(events) = 2
    /\ fullResponse = TextPreamble \o TextPreamble
    /\ tier = "text_wrap"
    /\ ThePlan.detailed_plan = TextPreamble \o TextPreamble

\* Property names of a parsed object.
KeyPlans ==
    <<"p", "l", "a", "n", "s">>
KeySelectedMode ==
    <<"s", "e", "l", "e", "c", "t", "e", "d", "_", "m", "o", "d", "e">>
KeyModeName ==
    <<"m", "o", "d", "e", "_", "n", "a", "m", "e">>
KeyError ==
    <<"e", "r", "r", "o", "r">>
KeyDetails ==
    <<"d", "e", "t", "a", "i", "l", "s">>

\* The members of a parsed object that carry the key (none or one).
MembersNamed(value, key) ==
    IF value[1] = "obj"
    THEN {k \in 1..Len(value[2]) : value[2][k][1] = key}
    ELSE {}
HasMember(value, key) == MembersNamed(value, key) # {}
MemberOf(value, key) == value[2][CHOOSE k \in MembersNamed(value, key) : TRUE][2]

\* A parsed object holds a plans list of one plan and a selected mode that
\* is this plan's mode name.
ParsedOnePlan(value) ==
    /\ HasMember(value, KeyPlans) /\ HasMember(value, KeySelectedMode)
    /\ MemberOf(value, KeyPlans)[1] = "arr"
    /\ Len(MemberOf(value, KeyPlans)[2]) = 1
    /\ HasMember(MemberOf(value, KeyPlans)[2][1], KeyModeName)
    /\ MemberOf(MemberOf(value, KeyPlans)[2][1], KeyModeName)
          = MemberOf(value, KeySelectedMode)

\* C11: whatever tier built it, the plan data returned holds exactly one
\* plan, and its selected mode is that plan's mode name.
C11_PlanShape ==
    (pc = "done" /\ response.status = 200) =>
        /\ tier \in SyntheticTiers =>
              /\ Len(planData.plans) = 1
              /\ planData.selected_mode = ThePlan.mode_name
        /\ tier \in {"strict", "relaxed"} => ParsedOnePlan(planData.value)

\* A response body has the shape {error, details}: the outer catch's
\* object, or a parsed object with these two properties.
ErrorShaped(body) ==
    IF "error" \in DOMAIN body THEN "details" \in DOMAIN body
    ELSE /\ body.type = "object"
         /\ "value" \in DOMAIN body
         /\ HasMember(body.value, KeyError)
         /\ HasMember(body.value, KeyDetails)

\* C12: the {error, details} object reaches the caller only with status 500
\* and only for a failure outside the reconciliation; what the
\* reconciliation returns for a valid request never has this shape.
C12_ErrorShape ==
    /\ pc = "failed" => response.status = 500 /\ ErrorShaped(response.body)
    /\ (pc = "done" /\ ValidRequest) =>
          /\ response.status = 200
          /\ ~ErrorShaped(response.body)

\* C13: a stream that raises, before any event or between events, ends the
\* request with the labeled status-500 error; no tier has run, no plan data
\* exists, and nothing follows: no event is delivered and no task is run
\* again.
C13_UpstreamFailure ==
    /\ [](pc = "failed" =>
            /\ response.status = 500
            /\ response.body.error = "Failed to generate plans"
            /\ response.body.details = Error("Error: stream", "", -1)
            /\ tier = "none"
            /\ planData = Null
            /\ scan = NotScanned)
    /\ [][pc = "failed" => UNCHANGED vars]_vars

\* The stream raised after text had been accumulated.
C13_Witness ==
    /\ pc = "failed"
    /\ Len(events) = 2
    /\ fullResponse = TextPreamble \o TextMalformed
    /\ response.status = 500

\* C14: when the strict parse of the candidate failed and the relaxed attempt
\* gave no result, the parse error the catch-all records in debug info is the
\* failure of the strict parse.
C14_RootCause ==
    (pc = "done" /\ ValidRequest /\ tier = "catch_all" /\ scan.jsonEnd # -1) =>
        /\ JSONparse(scan.jsonStr).threw
        /\ planData.debug_info.parse_error = JSONparse(scan.jsonStr).error

\* The two extractor signals: no '{' at all, and a '{' whose depth never
\* returns to zero.
NoCandidate(s) == Count(s, "{") = 0
IncompleteObject(s) == Count(s, "{") > 0 /\ LevelPlaces(s) = {}
\* The debug info of the plan data says that the extraction failed.
ExtractionTrace ==
    \/ "parse_error" \in DOMAIN planData.debug_info
    \/ "json_extraction_failed" \in DOMAIN planData.debug_info

\* C15 as stated: both signals are consumed by tier selection and neither
\* leaves an error response or any trace of the extraction failure in what
\* the caller receives.
C15_NoTrace ==
    (pc = "done" /\ ValidRequest) =>
        /\ NoCandidate(fullResponse) =>
              /\ scan.jsonStart = -1
              /\ tier = (IF fullResponse = <<>> THEN "empty_response" ELSE "text_wrap")
              /\ response.status = 200
              /\ ~ExtractionTrace
        /\ IncompleteObject(fullResponse) =>
              /\ scan.jsonStart # -1 /\ scan.jsonEnd = -1
              /\ tier = "catch_all"
              /\ ThePlan.detailed_plan = fullResponse
              /\ response.status = 200
              /\ ~ExtractionTrace

\* C15: both signals are consumed by tier selection and neither leaves an
\* error response; no candidate gives the text-wrap or the empty-response
\* plan with no sign of a failure, an incomplete object gives the catch-all
\* plan with the full text as detailed plan, and the debug info of that plan
\* names the incomplete object as its parse error and flags the failed
\* extraction.
C15_ExtractorSignals ==
    (pc = "done" /\ ValidRequest) =>
        /\ NoCandidate(fullResponse) =>
              /\ scan.jsonStart = -1
              /\ tier = (IF fullResponse = <<>> THEN "empty_response" ELSE "text_wrap")
              /\ response.status = 200
              /\ response.body = planData
              /\ ~ExtractionTrace
        /\ IncompleteObject(fullResponse) =>
              /\ scan.jsonStart # -1 /\ scan.jsonEnd = -1
              /\ tier = "catch_all"
              /\ ThePlan.detailed_plan = fullResponse
              /\ response.status = 200
              /\ response.body = planData
              /\ planData.debug_info.parse_error = IncompleteJson
              /\ planData.debug_info.json_extraction_failed

\* A text that opens an object and never closes it went to the catch-all.
C15_Witness ==
    /\ pc = "done" /\ ValidRequest
    /\ fullResponse = TextPreamble \o TextOpenLabels
    /\ scan.jsonStart = Len(TextPreamble) /\ scan.jsonEnd = -1
    /\ tier = "catch_all"

\* s is a prefix of t.
IsPrefix(s, t) == Len(s) <= Len(t) /\ SubSeq(t, 1, Len(s)) = s
\* An event that carries no text: its tag is neither text nor message, or its
\* content is neither a string nor a list with text items.
CarriesNoText(event) ==
    \/ event.type \notin {"text", "message"}
    \/ /\ event.content.kind # "string"
       /\ \A k \in 1..Len(event.content.items) : event.content.items[k].type # "text"

\* C16: every step leaves the accumulated text a prefix of what it becomes,
\* and a step that delivers an event carrying no text leaves it unchanged.
C16_AppendOnly ==
    [][/\ IsPrefix(fullResponse, fullResponse')
       /\ (events' # events /\ CarriesNoText(events'[Len(events')])) =>
              fullResponse' = fullResponse]_vars

\* Text was accumulated, then a tool result with a string content arrived and
\* the text stayed as it was.
C16_Witness ==
    /\ Len(events) = 2
    /\ events[1].type = "text" /\ events[1].content = StringContent(TextPreamble)
    /\ events[2].type = "tool_result" /\ events[2].content.kind = "string"
    /\ fullResponse = TextPreamble

\* What an invocation that ran alone with these events has accumulated.
AloneText(evs) == Concatenation([k \in 1..Len(evs) |-> Contribution(evs[k])])

\* C17: with the deliveries of the invocations interleaved in any order, each
\* invocation's accumulated text is made of its own events only, its plan
\* data and response are those its own text and request give, and it has no
\* plan data while its stream is being drained.
C17_Isolation ==
    \A h \in DOMAIN handlers :
        /\ handlers[h].fullResponse = AloneText(handlers[h].events)
        /\ handlers[h].pc = "stream" =>
              /\ handlers[h].planData = Null
              /\ handlers[h].tier = "none"
              /\ handlers[h].response = NoResponse
        /\ handlers[h].pc = "done" =>
              handlers[h] =
                  Responded([Locals(handlers[h].travelRequest) EXCEPT
                                 !.events = handlers[h].events,
                                 !.fullResponse = AloneText(handlers[h].events)],
                            Reconcile(AloneText(handlers[h].events),
                                      handlers[h].travelRequest))

\* The second invocation was answered from its own two events while the first,
\* of another budget, was still being drained with one event of its own.
C17_Witness ==
    /\ DOMAIN handlers = Invocations
    /\ handlers[1].pc = "stream"
    /\ Len(handlers[1].events) = 1
    /\ handlers[1].fullResponse = TextPreamble
    /\ handlers[1].travelRequest.budget = BUDGET
    /\ handlers[2].pc = "done"
    /\ handlers[2].travelRequest.budget = LUXURY
    /\ handlers[2].fullResponse = TextPreamble \o TextStrictPlan
    /\ handlers[2].tier = "strict"

\* The emoji and the flexibility of a budget tier.
ExpectedEmoji(budget) ==
    CASE budget = BUDGET -> EmojiWave
      [] budget = LUXURY -> EmojiFire
      [] OTHER -> EmojiScales
ExpectedFlexibility(budget) ==
    CASE budget = BUDGET -> High
      [] budget = LUXURY -> Low
      [] OTHER -> Medium
\* The mode and cost attributes of a plan.
ModeAndCost(plan) ==
    [f \in {"mode_name", "mode_emoji", "daily_attractions", "pace", "daily_budget",
            "total_budget", "flexibility"} |-> plan[f]]
\* The catch-all plan data of a request whose text had nothing to recover.
NothingRecovered(req) == CatchBlock(<<>>, req, NoError).planData

\* C18: in the catch-all tier the plan's mode and cost attributes and the
\* selected mode are those of the request's budget and duration, whatever was
\* recovered from the text; the recovered destination shows in the
\* description, and the recovered values are in debug info.
C18_RecoveredDiagnosticOnly ==
    (pc = "done" /\ tier = "catch_all") =>
        /\ ModeAndCost(ThePlan) = ModeAndCost(NothingRecovered(travelRequest).plans[1])
        /\ planData.selected_mode = NothingRecovered(travelRequest).selected_mode
        /\ ValidRequest =>
              /\ CarriesProfile(ThePlan, ExpectedProfile(travelRequest.budget))
              /\ ThePlan.mode_emoji = ExpectedEmoji(travelRequest.budget)
              /\ ThePlan.flexibility = ExpectedFlexibility(travelRequest.budget)
              /\ ReadsAs(ThePlan.total_budget,
                         BandOf(ThePlan.daily_budget)[1] * travelRequest.duration,
                         BandOf(ThePlan.daily_budget)[2] * travelRequest.duration)
              /\ planData.selected_mode = ExpectedProfile(travelRequest.budget).name
              /\ ThePlan.description =
                    AiGeneratedPrefix
                    \o ToLowerCase(ExpectedProfile(travelRequest.budget).name)
                    \o PlanFor \o ExtractedInfo.destination[2]
        /\ ThePlan.detailed_plan = fullResponse
        /\ planData.full_ai_response = fullResponse

\* A luxury request whose text names another destination, another duration
\* and the mode Flow: all three were recovered, and the plan is the luxury
\* plan for the request's duration.
C18_Witness ==
    /\ pc = "done"
    /\ tier = "catch_all"
    /\ travelRequest.budget = LUXURY
    /\ fullResponse = TextOpenLabels \o TextMalformed
    /\ ExtractedInfo.destination # <<"str", travelRequest.destination>>
    /\ ExtractedInfo.duration # <<"num", travelRequest.duration>>
    /\ ExtractedInfo.mode = <<"str", Flow>>
    /\ ThePlan.mode_name = IntenseAdventure

\* The tool's plan of a budget tier.
ToolPlanOf(request) ==
    CASE request.budget = BUDGET -> generateFlowPlan(request)
      [] request.budget = MODERATE -> generateModeratePlan(request)
      [] request.budget = LUXURY -> generateIntensePlan(request)
\* The mode and cost attributes a modeDetails table gives a request.
TablePlan(table, request) ==
    [mode_name |-> table[request.budget].name,
     mode_emoji |-> table[request.budget].emoji,
     daily_attractions |-> table[request.budget].attractions,
     pace |-> table[request.budget].pace,
     daily_budget |-> table[request.budget].daily,
     total_budget |-> TotalBudget(table[request.budget].daily, request.duration),
     flexibility |-> Flexibility(request.budget)]

\* For the three budget tiers and every duration, the task's mode name, the
\* three modeDetails tables and the tool's generators give the same mode and
\* cost attributes, and a synthetic plan carries them.
CopiesAgree ==
    /\ \A request \in [destination : {Tokyo}, duration : 1..MaxDuration,
                       budget : BudgetTiers] :
          /\ TablePlan(modeDetailsTextWrap, request) = ModeAndCost(ToolPlanOf(request))
          /\ TablePlan(modeDetailsEmpty, request) = ModeAndCost(ToolPlanOf(request))
          /\ TablePlan(modeDetailsCatchAll, request) = ModeAndCost(ToolPlanOf(request))
          /\ SelectedMode(request) =
                [inherited |-> FALSE, value |-> ToolPlanOf(request).mode_name]
    /\ (pc = "done" /\ ValidRequest /\ tier \in SyntheticTiers) =>
          /\ ModeAndCost(ThePlan) = ModeAndCost(ToolPlanOf(travelRequest))
          /\ planData.selected_mode = SelectedMode(travelRequest).value

\* C19: all copies of the mode table agree for the three budget tiers, and a
\* request of any other budget, or none, has Moderate Explorer as the mode
\* name of its task and as the selected mode of its synthetic plan.
C19_TablesAgree ==
    /\ CopiesAgree
    /\ (pc = "done" /\ ~ValidRequest /\ tier \notin {"strict", "relaxed"}) =>
          /\ SelectedMode(travelRequest) = [inherited |-> FALSE, value |-> ModerateExplorer]
          /\ response.status = 200
          /\ tier \in SyntheticTiers
          /\ planData.selected_mode = ModerateExplorer
====
